---- MODULE Spec2Model ----
(***************************************************************************)
(* Supply-chain-network generator (src/app.py): create_multiple_graphs     *)
(* draws one sub-seed per graph from the master stream and create_graph    *)
(* places firms, assembles products within a radius, prunes and relabels   *)
(* the bipartite graph and compiles the layered firm graph.                *)
(*                                                                         *)
(* The global random generator is the pair (seed, pos): rnd.seed(s) sets   *)
(* it to (s, 0) and every draw advances pos (seed 0 stands for the state   *)
(* the interpreter starts in).  The value of the stream of a               *)
(* seed at a position is unknown but fixed: it is chosen the first time it *)
(* is drawn and recorded in mt, and read back from mt ever after.          *)
(* A raw draw u stands for rnd.random() = u / (RawMax + 1); randint(1, K)  *)
(* is 1 + u % K and the random index below n is u % n.                     *)
(***************************************************************************)
EXTENDS Integers, Sequences, FiniteSets, TLC

\* ---------------------------------------------------------------- bounds
\* RawMax: raw draws are 0..RawMax.  NumSubSeeds: sub-seeds are
\* 1..NumSubSeeds (1..100000 in the program).  MaxSeed: master seeds are
\* 1..MaxSeed.  MaxCalls: calls one process serves.
RawMax == 1
NumSubSeeds == 2
MaxSeed == 2
MaxCalls == 2

Raw == 0..RawMax
AllSeeds == 0..(IF MaxSeed > NumSubSeeds THEN MaxSeed ELSE NumSubSeeds)

VARIABLES
    cfg,             \* the arguments of the call (form fields / keyword arguments)
    requests,        \* how many times the process is asked to generate
    pc,              \* position of the program
    calls,           \* number of calls made so far in this process
    err_mes,         \* get_values: the messages collected by the input checks
    rng,             \* the global generator of module random: [seed, pos]
    mt,              \* the stream of every seed, as far as it has been drawn
    draws,           \* random numbers drawn since the current call started
    firms_per_label, \* create_multiple_graphs
    connect_vector,  \* create_multiple_graphs (None replaced by all ones)
    seeds,           \* create_multiple_graphs: the sub-seeds
    graph_seed,      \* the seed argument each create_graph call received
    graphs,          \* full_dict['graphs']
    failure,         \* the exception that left the call, or "none"
    prev,            \* what the previous call of this process returned
    G,               \* create_graph: the auxiliary (bipartite) graph
    position,        \* create_graph: position of every firm
    label_nodes,     \* create_graph: the firms of every label, in creation order
    node,            \* create_graph: next node identifier
    product_list,    \* create_graph: accepted products (lists of firms)
    attempts,        \* create_graph: product attempts made
    new_product,     \* create_graph: the last candidate product
    product_pos,     \* create_graph: the position of the last candidate
    OG               \* create_graph: the output graph

vars == <<cfg, requests, pc, calls, err_mes, rng, mt, draws, firms_per_label,
          connect_vector, seeds, graph_seed, graphs, failure, prev, G,
          position, label_nodes, node, product_list, attempts, new_product,
          product_pos, OG>>

batchVars == <<firms_per_label, connect_vector, seeds, graph_seed, graphs>>
graphVars == <<G, position, label_nodes, node, product_list, attempts,
               new_product, product_pos, OG>>

\* --------------------------------------------------------------- helpers
Min(a, b) == IF a < b THEN a ELSE b

RECURSIVE Sum(_)
Sum(s) == IF s = <<>> THEN 0 ELSE Head(s) + Sum(Tail(s))

Repeat(x, n) == [k \in 1..n |-> x]

\* Python 3 round() of the quotient a / b of two positive integers:
\* to the nearest integer, a tie going to the even one.
Round(a, b) ==
    LET q == a \div b
        r == a % b
    IN  IF 2 * r < b THEN q
        ELSE IF 2 * r > b THEN q + 1
        ELSE IF q % 2 = 0 THEN q ELSE q + 1

FirmsPerLabel(number_firms, number_labels) ==
    Repeat(Round(number_firms, number_labels), number_labels)

\* ------------------------------------------------------------ random
\* a call of rnd.seed that leaves the generator where it is
SeedRngKept(s) == rng

\* rnd.seed(s)
SeedRng(s) == [seed |-> s, pos |-> 0]

\* d is what the next Len(d) draws of the generator return
Replays(d) ==
    \A j \in 1..Len(d) :
        rng.pos + j <= Len(mt[rng.seed]) => d[j] = mt[rng.seed][rng.pos + j]

Consume(d) ==
    /\ rng' = [rng EXCEPT !.pos = @ + Len(d)]
    /\ mt' = [mt EXCEPT ![rng.seed] =
                 IF rng.pos + Len(d) <= Len(@) THEN @
                 ELSE SubSeq(@, 1, rng.pos) \o d]
    /\ draws' = draws + Len(d)

RandInt(u) == 1 + (u % NumSubSeeds)

\* ------------------------------------------------------------ inputs
\* the arguments of create_multiple_graphs, in the order of its signature
\* (given tells a connect_vector from None)
Rec(ng, nf, np, nl, radius, given, cv, seed) ==
    [number_graphs |-> ng, number_firms |-> nf, number_products |-> np,
     number_labels |-> nl, radius |-> radius, connect_given |-> given,
     connect_vector |-> cv, seed |-> seed]

Run(c, n) == [cfg |-> c, requests |-> n]

\* one firm per label, default capacities: chains, skipped labels, pruning
Layered ==
    {Run(Rec(1, f, 1, f, 1, FALSE, <<>>, 1), 1) : f \in 2..3}

\* one label holding two firms, capacity 1 or 2
SingleLabel ==
    {Run(Rec(1, 2, 1, 1, r, TRUE, <<c>>, 1), 1) : r \in 1..2, c \in 1..2}

\* configurations the input checks object to, and capacity vectors of the
\* wrong length
Invalid ==
    {Run(Rec(1, 1, 1, 2, 1, TRUE, <<1, 1>>, s), n) :
        s \in 1..MaxSeed, n \in 1..MaxCalls}
    \cup {Run(Rec(1, 2, 1, 2, r, TRUE, <<1, 1>>, 1), 1) : r \in -1..0}
    \cup {Run(Rec(1, 2, 1, 2, 2, TRUE, cv, 1), 1) : cv \in {<<1>>, <<1, 1, 1>>}}

\* batches of zero, one and two graphs of a single firm
Small ==
    {Run(Rec(g, 1, 0, 1, 1, FALSE, <<>>, s), n) :
        g \in 0..2, s \in 1..MaxSeed, n \in 1..MaxCalls}

Scenarios == Layered \cup SingleLabel \cup Invalid \cup Small

\* two labels of two firms each although three firms were asked for, and a
\* label of two firms sampled twice
Rounded == {Run(Rec(1, 3, 1, 2, 2, TRUE, <<2, 2>>, 1), 1)}
Repeated == {Run(Rec(1, 2, 2, 1, 2, TRUE, <<2>>, 1), 1)}

LargeScenarios == Rounded \cup Repeated \cup Invalid

\* batches of two graphs of two firms, and batches generated again by the
\* same process
Batches ==
    {Run(Rec(2, 2, 1, 2, 1, FALSE, <<>>, s), 1) : s \in 1..MaxSeed}
    \cup {Run(Rec(1, 2, 1, 2, 1, TRUE, <<1, 1>>, s), n) :
            s \in 1..MaxSeed, n \in 1..MaxCalls}
    \cup Small

EmptyGraph == [nodes |-> <<>>, edges |-> {}, label |-> [n \in {} |-> 0]]
NoOutput == [nodes |-> {}, edges |-> {}]

InitWith(scenarios) ==
    /\ \E s \in scenarios : cfg = s.cfg /\ requests = s.requests
    /\ pc = "idle"
    /\ calls = 0
    /\ err_mes = {}
    /\ rng = [seed |-> 0, pos |-> 0]
    /\ mt = [s \in AllSeeds |-> <<>>]
    /\ draws = 0
    /\ firms_per_label = <<>>
    /\ connect_vector = <<>>
    /\ seeds = <<>>
    /\ graph_seed = <<>>
    /\ graphs = <<>>
    /\ failure = "none"
    /\ prev = <<>>
    /\ G = EmptyGraph
    /\ position = <<>>
    /\ label_nodes = <<>>
    /\ node = 0
    /\ product_list = <<>>
    /\ attempts = 0
    /\ new_product = <<>>
    /\ product_pos = <<0, 0>>
    /\ OG = NoOutput

Init == InitWith(Scenarios)
InitLarge == InitWith(LargeScenarios)
InitBatch == InitWith(Batches)

\* ---------------------------------------------------------- geometry
\* measure_node_distance, squared, in units of the raw grid
Dist2(firm_pos, path_pos) ==
    (firm_pos[1] - path_pos[1]) * (firm_pos[1] - path_pos[1])
    + (firm_pos[2] - path_pos[2]) * (firm_pos[2] - path_pos[2])

\* value < radius at line 61.  A coordinate is u * sqrt(total) / (RawMax + 1)
\* with total = sum(firms_per_label), so that the distance d satisfies
\* d < radius  iff  radius > 0 and total * Dist2 < radius^2 * (RawMax + 1)^2.
InRange(firm_pos, path_pos, radius, total) ==
    /\ radius > 0
    /\ total * Dist2(firm_pos, path_pos)
         < radius * radius * (RawMax + 1) * (RawMax + 1)

\* rnd.sample(population, k) for 0 <= k <= len(population), reading the
\* random indices from d: the pool algorithm of module random.
RECURSIVE SamplePool(_, _, _)
SamplePool(pool, k, d) ==
    IF k = 0 THEN <<>>
    ELSE LET n == Len(pool)
             j == (d[1] % n) + 1
             rest == SubSeq([pool EXCEPT ![j] = pool[n]], 1, n - 1)
         IN  <<pool[j]>> \o SamplePool(rest, k - 1, Tail(d))

Sample(population, k, d) == SamplePool(population, k, d)

\* the capacity forgotten at line 63
SampleSizeAll(in_range, capacity) == in_range

\* the number of firms asked of rnd.sample at line 63
SampleSize(in_range, capacity) == Min(in_range, capacity)

\* ----------------------------------------------------------- call entries
\* get_values, lines 206-242: the form builds one capacity per label, the
\* checks collect messages, and create_multiple_graphs is called whatever
\* they found.
get_values ==
    /\ pc = "idle"
    /\ calls < requests
    /\ cfg.connect_given
    /\ Len(cfg.connect_vector) = cfg.number_labels
    /\ err_mes' =
         (IF cfg.radius = 0 THEN {"Radius must be Positive"} ELSE {})
         \cup (IF cfg.number_labels > cfg.number_firms
                 THEN {"Number of Labels can not be larger than Number of Firms"}
                 ELSE {})
         \cup (IF \E k \in 1..Len(cfg.connect_vector) :
                      cfg.connect_vector[k] > cfg.number_firms
                 THEN {"Maximum Number of Firms with Label can not be larger than Number of Firms"}
                 ELSE {})
    /\ pc' = "call"
    /\ calls' = calls + 1
    /\ draws' = 0
    /\ failure' = "none"
    /\ UNCHANGED <<cfg, requests, rng, mt, prev>>
    /\ UNCHANGED batchVars
    /\ UNCHANGED graphVars

\* display_results, lines 162-165: no parameter checks
display_results ==
    /\ pc = "idle"
    /\ calls < requests
    /\ err_mes' = {}
    /\ pc' = "call"
    /\ calls' = calls + 1
    /\ draws' = 0
    /\ failure' = "none"
    /\ UNCHANGED <<cfg, requests, rng, mt, prev>>
    /\ UNCHANGED batchVars
    /\ UNCHANGED graphVars

\* ------------------------------------------ create_multiple_graphs
\* lines 142-145 and 149-154 (and line 160 when no graph is asked for)
SeedMaster ==
    /\ pc = "call"
    /\ firms_per_label' = FirmsPerLabel(cfg.number_firms, cfg.number_labels)
    /\ connect_vector' = IF cfg.connect_given THEN cfg.connect_vector
                         ELSE Repeat(1, cfg.number_labels)
    /\ rng' = SeedRng(cfg.seed)
    /\ seeds' = <<>>
    /\ graph_seed' = <<>>
    /\ graphs' = <<>>
    /\ pc' = IF cfg.number_graphs = 0 THEN "done" ELSE "seeds"
    /\ UNCHANGED <<cfg, requests, calls, err_mes, mt, draws, failure, prev>>
    /\ UNCHANGED graphVars

\* line 146, one randint(1, 100000) of the list
DrawSubSeed ==
    /\ pc = "seeds"
    /\ \E d \in [1..1 -> Raw] :
        /\ Replays(d)
        /\ Consume(d)
        /\ seeds' = Append(seeds, RandInt(d[1]))
    /\ pc' = IF Len(seeds) + 1 = cfg.number_graphs THEN "loop" ELSE "seeds"
    /\ UNCHANGED <<cfg, requests, calls, err_mes, failure, prev, firms_per_label,
                   connect_vector, graph_seed, graphs>>
    /\ UNCHANGED graphVars

\* seeds[0] at line 156
SeedForFirst(i) == seeds[1]

\* the seed passed to create_graph for graph i (0-based), line 156
SeedFor(i) == seeds[i + 1]

labels == Len(firms_per_label)
total_firms == Sum(firms_per_label)

\* where create_graph goes after the firm loop
AfterFirms == IF cfg.number_products = 0 THEN "prune" ELSE "products"

\* line 156 calling create_graph, lines 34-41
BeginGraph ==
    /\ pc = "loop"
    /\ rng' = SeedRng(SeedFor(Len(graphs)))
    /\ graph_seed' = Append(graph_seed, SeedFor(Len(graphs)))
    /\ G' = EmptyGraph
    /\ position' = <<>>
    /\ label_nodes' = [l \in 1..labels |-> <<>>]
    /\ node' = 0
    /\ product_list' = <<>>
    /\ attempts' = 0
    /\ new_product' = <<>>
    /\ product_pos' = <<0, 0>>
    /\ OG' = NoOutput
    /\ pc' = IF total_firms = 0 THEN AfterFirms ELSE "firms"
    /\ UNCHANGED <<cfg, requests, calls, err_mes, mt, draws, failure, prev,
                   firms_per_label, connect_vector, seeds, graphs>>

\* the label whose inner loop creates the firm numbered n
LabelOfFirm(n) ==
    CHOOSE l \in 0..(labels - 1) :
        /\ Sum(SubSeq(firms_per_label, 1, l)) <= n
        /\ n < Sum(SubSeq(firms_per_label, 1, l + 1))

\* lines 44-49, one firm
PlaceFirm ==
    /\ pc = "firms"
    /\ \E d \in [1..2 -> Raw] :
        /\ Replays(d)
        /\ Consume(d)
        /\ position' = Append(position, <<d[1], d[2]>>)
    /\ G' = [G EXCEPT !.nodes = Append(@, node),
                      !.label = [n \in DOMAIN @ \cup {node} |->
                                   IF n = node THEN LabelOfFirm(node) ELSE @[n]]]
    /\ label_nodes' = [label_nodes EXCEPT ![LabelOfFirm(node) + 1] = Append(@, node)]
    /\ node' = node + 1
    /\ pc' = IF node + 1 = total_firms THEN AfterFirms ELSE "firms"
    /\ UNCHANGED <<cfg, requests, calls, err_mes, failure, prev, product_list, attempts,
                   new_product, product_pos, OG>>
    /\ UNCHANGED batchVars

\* ------------------------------------------------- product assembly
\* lines 60-61: the firms of a label within the radius of pos, in the order
\* of label_nodes
NodesInRange(label, pos) ==
    LET Near(n) == InRange(position[n + 1], pos, cfg.radius, total_firms)
    IN  SelectSeq(label_nodes[label + 1], Near)

\* the random indices the samples of lines 62-63 read from label on, for a
\* candidate at pos (up to the label at which line 63 raises, if it does)
RECURSIVE SampleDraws(_, _)
SampleDraws(label, pos) ==
    IF label = labels THEN 0
    ELSE IF Len(NodesInRange(label, pos)) = 0 THEN SampleDraws(label + 1, pos)
    ELSE IF label >= Len(connect_vector) THEN 0
    ELSE LET k == SampleSize(Len(NodesInRange(label, pos)),
                             connect_vector[label + 1])
         IN  IF k < 0 THEN 0 ELSE k + SampleDraws(label + 1, pos)

\* lines 59-64 from label on: the candidate grown label by label, reading
\* the sample's random indices from d.  error is the exception raised at
\* line 63 ("none" if none).
RECURSIVE SelectLabels(_, _, _, _)
SelectLabels(label, pos, d, chosen) ==
    IF label = labels
    THEN [new_product |-> chosen, error |-> "none"]
    ELSE
      LET nodes_in_range == NodesInRange(label, pos)
      IN  IF Len(nodes_in_range) = 0
          THEN SelectLabels(label + 1, pos, d, chosen)
          ELSE IF label >= Len(connect_vector)
          THEN [new_product |-> chosen, error |-> "IndexError"]
          ELSE
            LET k == SampleSize(Len(nodes_in_range), connect_vector[label + 1])
            IN  IF k < 0
                THEN [new_product |-> chosen, error |-> "ValueError"]
                ELSE SelectLabels(label + 1, pos, SubSeq(d, k + 1, Len(d)),
                        chosen \o Sample(nodes_in_range, k, SubSeq(d, 1, k)))

\* line 65: the candidate is kept
Accepts(candidate, accepted) ==
    /\ ~ \E k \in 1..Len(accepted) : accepted[k] = candidate
    /\ Len(candidate) > 1

\* lines 57-70, one iteration of the product loop
TryProduct ==
    /\ pc = "products"
    /\ \E pos \in [1..2 -> Raw] :
       \E indices \in [1..SampleDraws(0, pos) -> Raw] :
        LET d == pos \o indices
            r == SelectLabels(0, pos, indices, <<>>)
        IN  /\ Replays(d)
            /\ Consume(d)
            /\ product_pos' = pos
            /\ new_product' = r.new_product
            /\ attempts' = attempts + 1
            /\ IF r.error # "none"
               THEN /\ failure' = r.error
                    /\ pc' = "failed"
                    /\ UNCHANGED <<G, node, product_list>>
               ELSE /\ failure' = failure
                    /\ pc' = IF attempts + 1 = cfg.number_products
                             THEN "prune" ELSE "products"
                    /\ IF Accepts(r.new_product, product_list)
                       THEN /\ product_list' = Append(product_list, r.new_product)
                            /\ G' = [G EXCEPT
                                 !.nodes = Append(@, node),
                                 !.edges = @ \cup {<<r.new_product[k], node>> :
                                                     k \in 1..Len(r.new_product)}]
                            /\ node' = node + 1
                       ELSE UNCHANGED <<G, node, product_list>>
    /\ UNCHANGED <<cfg, requests, calls, err_mes, prev, position, label_nodes, OG>>
    /\ UNCHANGED batchVars

\* ------------------------------------------------- prune and relabel
Successors(g, n) == {e[2] : e \in {f \in g.edges : f[1] = n}}
Predecessors(g, n) == {e[1] : e \in {f \in g.edges : f[2] = n}}

\* lines 73-75: the nodes left, in the order G.nodes iterates them
Pruned(g) ==
    LET Connected(n) == Successors(g, n) # {} \/ Predecessors(g, n) # {}
    IN  SelectSeq(g.nodes, Connected)

\* identifiers handed out from the last node down
NewIdDescending(k, n) == n - k

\* lines 78-82: the new identifier of the k-th of n iterated nodes
NewId(k, n) == k - 1

\* lines 78-83
Relabeled(g) ==
    LET kept == Pruned(g)
        mapping == [m \in {kept[k] : k \in 1..Len(kept)} |->
                      NewId(CHOOSE k \in 1..Len(kept) : kept[k] = m, Len(kept))]
    IN  [nodes |-> [k \in 1..Len(kept) |-> mapping[kept[k]]],
         edges |-> {<<mapping[e[1]], mapping[e[2]]>> : e \in g.edges},
         label |-> [m \in {mapping[x] : x \in DOMAIN g.label
                                             \cap DOMAIN mapping} |->
                      g.label[CHOOSE x \in DOMAIN g.label \cap DOMAIN mapping :
                                 mapping[x] = m]]]

\* ------------------------------------------------- layered graph
\* lines 88-94: the product nodes of g, and a product as label -> firms
ProductNodes(g) ==
    {g.nodes[k] : k \in {j \in 1..Len(g.nodes) : Predecessors(g, g.nodes[j]) # {}}}

ProductOf(g, n) ==
    [l \in 0..(labels - 1) |-> {f \in Predecessors(g, n) : g.label[f] = l}]

\* line 101
ActiveLabels(product) ==
    LET Used(l) == product[l] # {}
    IN  SelectSeq([k \in 1..labels |-> k - 1], Used)

\* firm1 and firm2 exchanged at line 105
ProductEdgesReversed(product) ==
    LET active_labels == ActiveLabels(product)
    IN  UNION {product[active_labels[i + 1]] \X product[active_labels[i]] :
                 i \in 1..(Len(active_labels) - 1)}

\* every later active label instead of the next one at line 104
ProductEdgesAllPairs(product) ==
    LET active_labels == ActiveLabels(product)
    IN  UNION {product[active_labels[p[1]]] \X product[active_labels[p[2]]] :
                 p \in {q \in (1..Len(active_labels)) \X (1..Len(active_labels)) :
                          q[1] < q[2]}}

\* range(len(active_labels) - 2) at line 102
ProductEdgesShort(product) ==
    LET active_labels == ActiveLabels(product)
    IN  UNION {product[active_labels[i]] \X product[active_labels[i + 1]] :
                 i \in 1..(Len(active_labels) - 2)}

\* lines 102-105
ProductEdges(product) ==
    LET active_labels == ActiveLabels(product)
    IN  UNION {product[active_labels[i]] \X product[active_labels[i + 1]] :
                 i \in 1..(Len(active_labels) - 1)}

\* lines 86-105
Compiled(g) ==
    LET node_set == UNION {Predecessors(g, n) : n \in ProductNodes(g)}
        edges == UNION {ProductEdges(ProductOf(g, n)) : n \in ProductNodes(g)}
    IN  [nodes |-> node_set \cup {e[1] : e \in edges} \cup {e[2] : e \in edges},
         edges |-> edges]

\* lines 72-106 and the return of create_graph, then lines 157-158 (and
\* line 160 after the last graph)
FinishGraph ==
    /\ pc = "prune"
    /\ LET relabeled == Relabeled(G)
           graph_dict == Compiled(relabeled)
       IN  /\ G' = relabeled
           /\ OG' = graph_dict
           /\ graphs' = Append(graphs, graph_dict)
    /\ pc' = IF Len(graphs) + 1 = cfg.number_graphs THEN "done" ELSE "loop"
    /\ UNCHANGED <<cfg, requests, calls, err_mes, rng, mt, draws, failure, prev,
                   position, label_nodes, node, product_list, attempts,
                   new_product, product_pos>>
    /\ UNCHANGED <<firms_per_label, connect_vector, seeds, graph_seed>>

\* what a call hands back: full_dict, or the exception
Result ==
    [firms_per_label |-> firms_per_label, seeds |-> seeds,
     graphs |-> IF pc = "done" THEN graphs ELSE <<>>, failure |-> failure]

\* the process serves the next request, with the same inputs
NextCall ==
    /\ pc \in {"done", "failed"}
    /\ calls < requests
    /\ prev' = <<Result>>
    /\ pc' = "idle"
    /\ UNCHANGED <<cfg, requests, calls, err_mes, rng, mt, draws, failure>>
    /\ UNCHANGED batchVars
    /\ UNCHANGED graphVars

Next ==
    \/ get_values
    \/ display_results
    \/ SeedMaster
    \/ DrawSubSeed
    \/ BeginGraph
    \/ PlaceFirm
    \/ TryProduct
    \/ FinishGraph
    \/ NextCall

Spec == Init /\ [][Next]_vars
SpecLarge == InitLarge /\ [][Next]_vars
SpecBatch == InitBatch /\ [][Next]_vars

\* ------------------------------------------------------------ properties
Degree(g, n) == Cardinality({e \in g.edges : e[1] = n \/ e[2] = n})

\* the labels of the firms a product node of g selected
LabelsOf(g, n) == {g.label[f] : f \in Predecessors(g, n)}

\* the number of firms of label l (0-based) in the list p of created firms
CountOfLabel(p, l) ==
    Cardinality({k \in 1..Len(p) :
                   \E j \in 1..Len(label_nodes[l + 1]) : label_nodes[l + 1][j] = p[k]})

\* the firms of label l (0-based) within the radius of pos
FirmsInRange(l, pos) ==
    {j \in 1..Len(label_nodes[l + 1]) :
        InRange(position[label_nodes[l + 1][j] + 1], pos, cfg.radius, total_firms)}

\* C1: every edge (u, v) of an output graph goes from a firm of a smaller
\* label to a firm of a strictly larger label.
C1_EdgesLabelIncreasing ==
    \A e \in OG.edges :
        /\ e[1] \in DOMAIN G.label
        /\ e[2] \in DOMAIN G.label
        /\ G.label[e[1]] < G.label[e[2]]

C1_Witness == OG.edges # {}

\* C9 as stated: every edge of an output graph joins label i to label i + 1.
C9_AdjacentLabelsOnly ==
    \A e \in OG.edges : G.label[e[2]] = G.label[e[1]] + 1

\* C9 amended: every edge (u, v) of an output graph goes to a strictly larger
\* label, and some accepted product holds both u and v and no firm of a
\* label strictly between theirs: v's label is the next active label of
\* that product, not necessarily the next label.
C9_NextActiveLabel ==
    \A e \in OG.edges :
        /\ G.label[e[1]] < G.label[e[2]]
        /\ \E n \in ProductNodes(G) :
            /\ e[1] \in Predecessors(G, n)
            /\ e[2] \in Predecessors(G, n)
            /\ \A l \in LabelsOf(G, n) :
                 ~ (G.label[e[1]] < l /\ l < G.label[e[2]])

C9_Witness ==
    \E e \in OG.edges : G.label[e[2]] >= G.label[e[1]] + 2

\* C3 as stated: every node of an output graph has degree >= 1.
C3_NoIsolatedNode ==
    \A n \in OG.nodes : Degree(OG, n) >= 1

\* C3 amended: every node of an output graph is a firm of some accepted
\* product, and it has degree >= 1 as soon as one accepted product holding
\* it holds firms of two or more labels.
C3_NoIsolatedNodeInLayeredProduct ==
    \A f \in OG.nodes :
        /\ \E n \in ProductNodes(G) : f \in Predecessors(G, n)
        /\ (\E n \in ProductNodes(G) :
               f \in Predecessors(G, n) /\ Cardinality(LabelsOf(G, n)) >= 2)
             => Degree(OG, f) >= 1

C3_Witness ==
    \E f \in OG.nodes :
        /\ Degree(OG, f) >= 1
        /\ \E n \in ProductNodes(G) :
             f \in Predecessors(G, n) /\ Cardinality(LabelsOf(G, n)) >= 2

\* C5: every candidate and every accepted product holds, of each label, at
\* most connect_vector[label] firms, and the last candidate at most as many
\* as there are firms of the label within the radius of its position.
C5_CapacityRespected ==
    Len(label_nodes) = labels =>
      \A l \in 0..(labels - 1) :
        /\ \A k \in 1..Len(product_list) :
             /\ l < Len(connect_vector) =>
                  CountOfLabel(product_list[k], l) <= connect_vector[l + 1]
             /\ l >= Len(connect_vector) => CountOfLabel(product_list[k], l) = 0
        /\ l < Len(connect_vector) =>
             CountOfLabel(new_product, l) <= connect_vector[l + 1]
        /\ CountOfLabel(new_product, l) <= Cardinality(FirmsInRange(l, product_pos))

C5_Witness ==
    /\ Len(label_nodes) = labels
    /\ Len(product_list) > 0
    /\ \E l \in 0..(labels - 1) :
        /\ l < Len(connect_vector)
        /\ CountOfLabel(product_list[Len(product_list)], l) = connect_vector[l + 1]
        /\ connect_vector[l + 1] >= 2

\* C10: after pruning and relabeling, the nodes of the bipartite graph are
\* exactly 0..n-1, every firm -> product edge has a smaller source than
\* destination, and the firms are 0..k-1 and the products k..n-1.
C10_RelabelOrdered ==
    pc \in {"loop", "done"} =>
      LET n == Len(G.nodes)
          k == Cardinality(DOMAIN G.label)
      IN  /\ {G.nodes[j] : j \in 1..n} = 0..(n - 1)
          /\ \A e \in G.edges : e[1] < e[2]
          /\ DOMAIN G.label = 0..(k - 1)
          /\ ProductNodes(G) = k..(n - 1)

C10_Witness ==
    /\ pc \in {"loop", "done"}
    /\ G.edges # {}
    /\ Len(G.nodes) < node
    /\ \A k \in 1..Len(product_list) : \A j \in 1..Len(product_list[k]) :
         product_list[k][j] # 0

\* the firms of an accepted product, as a set
FirmSet(p) == {p[k] : k \in 1..Len(p)}

\* C2: two accepted products of a graph never have the same set of firms.
C2_NoDuplicateFirmSets ==
    \A i \in 1..Len(product_list) : \A j \in 1..Len(product_list) :
        i # j => FirmSet(product_list[i]) # FirmSet(product_list[j])

\* the configurations the specification calls invalid
InvalidConfig(c) ==
    \/ c.number_labels > c.number_firms
    \/ c.radius <= 0
    \/ (c.connect_given /\ Len(c.connect_vector) # c.number_labels)

\* C4: a call with an invalid configuration fails with InvalidConfig before
\* any random number is drawn and without producing a graph.
C4_InvalidConfigFailsEagerly ==
    (InvalidConfig(cfg) /\ pc \notin {"idle", "call"}) =>
        /\ draws = 0
        /\ pc # "done"
        /\ graphs = <<>>
        /\ (pc = "failed" => failure = "InvalidConfig")

\* C8: with 1 <= number_labels <= number_firms, no graph has more than
\* number_firms firm nodes.
C8_AtMostNumberFirms ==
    (1 <= cfg.number_labels /\ cfg.number_labels <= cfg.number_firms) =>
        /\ Cardinality(OG.nodes) <= cfg.number_firms
        /\ \A i \in 1..Len(graphs) :
             Cardinality(graphs[i].nodes) <= cfg.number_firms

\* C6: a call repeated with the same configuration and master seed draws
\* the sub-seeds the call before drew and returns what it returned, and two
\* graphs generated from the same sub-seed are the same graph.
C6_Deterministic ==
    /\ (pc \in {"done", "failed"} /\ prev # <<>>) => Result = prev[1]
    /\ (pc \notin {"idle", "call"} /\ prev # <<>>) =>
         \A i \in 1..Len(seeds) : seeds[i] = prev[1].seeds[i]
    /\ \A i \in 1..Len(graphs) : \A j \in 1..Len(graphs) :
         graph_seed[i] = graph_seed[j] => graphs[i] = graphs[j]
    /\ \A i \in 1..Len(graphs) :
         (prev # <<>> /\ i <= Len(prev[1].graphs)
            /\ prev[1].seeds[i] = graph_seed[i])
           => graphs[i] = prev[1].graphs[i]

C6_Witness ==
    /\ pc = "done"
    /\ prev # <<>>
    /\ prev[1].failure = "none"
    /\ \E i \in 1..Len(graphs) : graphs[i].edges # {}

\* C7 as stated: N graphs, graph i from the i-th sub-seed, and the N
\* sub-seeds pairwise distinct.
C7_DistinctSubSeeds ==
    pc = "done" =>
        /\ Len(graphs) = cfg.number_graphs
        /\ \A i \in 1..Len(graphs) : graph_seed[i] = seeds[i]
        /\ \A i \in 1..Len(seeds) : \A j \in 1..Len(seeds) :
             i # j => seeds[i] # seeds[j]

\* C7 amended: a call with number_graphs = N returns exactly N graphs, graph
\* i generated from the i-th sub-seed, which is the i-th value drawn from
\* the master stream and lies in the range of randint; the sub-seeds need
\* not be distinct.
C7_BatchSize ==
    pc = "done" =>
        /\ Len(graphs) = cfg.number_graphs
        /\ Len(seeds) = cfg.number_graphs
        /\ Len(graph_seed) = cfg.number_graphs
        /\ \A i \in 1..Len(graphs) :
             /\ graph_seed[i] = seeds[i]
             /\ seeds[i] = RandInt(mt[cfg.seed][i])
             /\ seeds[i] \in 1..NumSubSeeds

C7_Witness ==
    /\ pc = "done"
    /\ cfg.number_graphs = 2
    /\ seeds[1] = seeds[2]
====
